---- MODULE Spec2Model ----
(***************************************************************************)
(* Model of app.py: perform_inference reads the source image, hands it and *)
(* the processed network output to create_output_image, falls back to the  *)
(* image on any exception and writes the result.                           *)
(*                                                                         *)
(* Arrays are functions over 0-based row and column indices; a pixel is    *)
(* the OpenCV triple <<blue, green, red>>.  Python lists are sequences, so *)
(* Python index k is TLA+ index k + 1.  Probabilities are in tenths        *)
(* (0.5 is 5).  Text drawn by cv2.putText is kept as a list of draw        *)
(* records beside the pixel array instead of being rasterised.             *)
(***************************************************************************)
EXTENDS Integers, Sequences, FiniteSets, TLC

\* ---------------------------------------------------------------- bounds
ImgH == 2
ImgW == 2
NumClasses == 2
MaxPoints == 3
MaxAsset == 2

\* ----------------------------------------------------- program constants
Cutoff == 5
High == 255
Radius == 4

CAR_COLORS == <<"white", "gray", "yellow", "red", "green", "blue", "black">>
CAR_TYPES == <<"car", "bus", "truck", "van">>
GENDER_TYPES == <<"female", "male">>

Rows == 0..(ImgH - 1)
Cols == 0..(ImgW - 1)

\* ------------------------------------------------------------ numpy/python
\* A Python list or numpy axis of length n accepts index k iff -n <= k < n;
\* a negative index counts from the end.
PyValid(k, n) == (-n <= k) /\ (k < n)

PyPos(k, n) == IF k < 0 THEN k + n ELSE k

\* seq[k] as Python evaluates it, for a valid k.
PyGet(seq, k) == seq[PyPos(k, Len(seq)) + 1]

\* int(x / 2) for an integer x: Python's int() truncates toward zero.
TruncHalf(x) == IF x >= 0 THEN x \div 2 ELSE -((-x) \div 2)

\* int(sqrt(n))
ISqrt(n) == CHOOSE s \in 0..n : (s * s <= n) /\ (n < (s + 1) * (s + 1))

\* int(sqrt(d2) * num / den)
ISqrtScaled(d2, num, den) ==
    CHOOSE s \in 0..(d2 * num) :
        /\ s * s * den * den <= d2 * num * num
        /\ d2 * num * num < (s + 1) * (s + 1) * den * den

\* np.where(m > 0.5, 255, 0) on one probability map
Threshold_ge(m) ==
    [r \in DOMAIN m |-> [c \in DOMAIN m[r] |-> IF m[r][c] >= Cutoff THEN High ELSE 0]]

Threshold(m) ==
    [r \in DOMAIN m |-> [c \in DOMAIN m[r] |-> IF m[r][c] > Cutoff THEN High ELSE 0]]

\* output[:-1]
DropLast(stack) == SubSeq(stack, 1, Len(stack) - 1)

RECURSIVE SumAt(_, _, _, _)
SumAt(stack, n, r, c) ==
    IF n = 0 THEN 0 ELSE stack[n][r][c] + SumAt(stack, n - 1, r, c)

\* np.sum(output, axis=0)
SumAxis0(stack) == [r \in Rows |-> [c \in Cols |-> SumAt(stack, Len(stack), r, c)]]

\* get_mask with the map stacked into the first channel
get_mask_blue(processed_output) ==
    [r \in Rows |-> [c \in Cols |-> <<processed_output[r][c], 0, 0>>]]

\* np.dstack((empty, processed_output, empty))
get_mask(processed_output) ==
    [r \in Rows |-> [c \in Cols |-> <<0, processed_output[r][c], 0>>]]

\* image + mask: a uint8 array plus a float64 array is a float64 array holding
\* the exact sums; the text layer belongs to the array drawn on, not to the sum.
AddMask(img, m) ==
    [px |-> [r \in Rows |-> [c \in Cols |->
                <<img.px[r][c][1] + m[r][c][1],
                  img.px[r][c][2] + m[r][c][2],
                  img.px[r][c][3] + m[r][c][3]>>]],
     txt |-> <<>>]

\* ---------------------------------------------------------------- OpenCV
\* cv2.putText draws in place: one more draw record on the image.
putText(img, text, org, fontScale, color, thickness) ==
    [img EXCEPT !.txt = Append(@, [text |-> text, org |-> org, fontScale |-> fontScale,
                                   color |-> color, thickness |-> thickness])]

\* cv2.circle(image, (x, y), 4, (255, 0, 0), -1): the filled disc, clipped to
\* the image.
circle(img, x, y) ==
    [img EXCEPT !.px = [r \in Rows |-> [c \in Cols |->
        IF (c - x) * (c - x) + (r - y) * (r - y) <= Radius * Radius
        THEN <<255, 0, 0>> ELSE img.px[r][c]]]]

\* cv2.resize(glasses, (w, h)): an h x w array sampled from the asset
\* (nearest source pixel).
resize(g, w, h) ==
    [rows |-> h, cols |-> w,
     px |-> [i \in 0..(h - 1) |-> [j \in 0..(w - 1) |->
                g.px[(i * g.rows) \div h][(j * g.cols) \div w]]]]

\* cv2.imwrite converts an array that is not 8-bit with saturation.
Saturate(v) == IF v > 255 THEN 255 ELSE IF v < 0 THEN 0 ELSE v

imwrite(img) ==
    [img EXCEPT !.px = [r \in Rows |-> [c \in Cols |->
        <<Saturate(img.px[r][c][1]), Saturate(img.px[r][c][2]), Saturate(img.px[r][c][3])>>]]]

\* ------------------------------------------------------------------ inputs
BasePixels == {<<0, 0, 0>>, <<10, 200, 30>>}

Uniform(p) == [r \in Rows |-> [c \in Cols |-> p]]

\* Source images: one colour, or one colour with a single pixel of another.
UniformImages == {[px |-> Uniform(p), txt |-> <<>>] : p \in BasePixels}

SparseImages ==
    UniformImages \cup
    {[px |-> [Uniform(p) EXCEPT ![r][c] = q], txt |-> <<>>] :
        p \in BasePixels, q \in BasePixels, r \in Rows, c \in Cols}

Probs == {4, 5, 6}

\* Probability maps: one value, or one value with a single differing element.
SparseMaps ==
    {[Uniform(v) EXCEPT ![r][c] = w] : v \in Probs, w \in Probs, r \in Rows, c \in Cols}

\* Heatmaps of one class: low everywhere but one element at or above the cutoff.
HotMaps == {[Uniform(4) EXCEPT ![r][c] = w] : w \in {5, 6}, r \in Rows, c \in Cols}

RECURSIVE SeqsUpTo(_, _)
SeqsUpTo(S, n) ==
    IF n = 0 THEN {<<>>}
    ELSE LET shorter == SeqsUpTo(S, n - 1)
         IN  shorter \cup {Append(s, x) : s \in {t \in shorter : Len(t) = n - 1}, x \in S}

\* POSE: 1..NumClasses class heatmaps followed by the auxiliary last channel.
PoseOutputs ==
    {Append(s, last) : s \in SeqsUpTo(HotMaps, NumClasses) \ {<<>>},
                       last \in {Uniform(4), Uniform(6)}}

\* TEXT: a two-channel map; channel index 1 is the text probability.
TextOutputs == {<<bg, m>> : bg \in {Uniform(4), Uniform(6)}, m \in SparseMaps}

CarOutputs ==
    {<<a, b>> : a \in (-(Len(CAR_COLORS) + 1))..Len(CAR_COLORS),
                b \in (-(Len(CAR_TYPES) + 1))..Len(CAR_TYPES)}

GenderOutputs ==
    {<<age, g>> : age \in {25, 40},
                  g \in (-(Len(GENDER_TYPES) + 1))..Len(GENDER_TYPES)}

FacialCoords == {0, 1, ImgW + 3}

FacialOutputs == SeqsUpTo(FacialCoords, MaxPoints)

\* Overlay assets as cv2.imread(glass, -1) returns them: rows x cols pixels
\* <<b, g, r, alpha>>, each pixel's colour telling its position; either opaque
\* or with a transparent top-left pixel.  ok = FALSE is an unreadable path
\* (imread returns None).
AssetPx(h, w, holes) ==
    [i \in 0..(h - 1) |-> [j \in 0..(w - 1) |->
        <<100 + i, 50 + j, 77, IF <<i, j>> \in holes THEN 0 ELSE 255>>]]

Assets ==
    {[ok |-> TRUE, rows |-> h, cols |-> w, px |-> AssetPx(h, w, holes)] :
        h \in 1..MaxAsset, w \in 1..MaxAsset, holes \in {{}, {<<0, 0>>}}}

NoAsset == [ok |-> FALSE, rows |-> 0, cols |-> 0, px |-> <<>>]

\* The landmark entries the GLASS path reads, as a function of the flat index.
GlassIdx == {0, 1, 4, 5, 36, 37, 68, 69}

GlassOutputs ==
    {[k \in GlassIdx |->
        CASE k = 0 -> x0 [] k = 4 -> x0 + dx
          [] k = 1 -> y0 [] k = 5 -> y0 + dy
          [] k = 36 -> 0 [] k = 37 -> 0
          [] k = 68 -> sx [] k = 69 -> sy] :
        x0 \in (-1)..ImgW, dx \in {0, 1}, y0 \in (-1)..ImgH, dy \in {0, 1},
        sx \in 0..ImgW, sy \in {0, 1}}

KnownTypes == {"POSE", "TEXT", "CAR_META", "FACIAL", "GLASS", "GENDER"}

UnknownTypes == {"UNKNOWN", "pose", ""}

NoImage == [px |-> <<>>, txt |-> <<>>]
NoGlasses == [rows |-> 0, cols |-> 0, px |-> <<>>]

\* ------------------------------------------------------------------- state
VARIABLES
    pc,                      \* position in perform_inference / create_output_image
    model_type,              \* args.t
    src,                     \* the input file's pixels (args.i)
    glass,                   \* the overlay asset behind args.g
    processed_output,        \* process_func(output, image.shape)
    image,                   \* the array cv2.imread returned; drawn on in place
    output,                  \* create_output_image's local output
    mask,                    \* pose_mask / text_mask
    glasses,                 \* the resized asset
    translation_vertical,
    translation_horizontal,
    i, j,                    \* loop indices of the FACIAL and GLASS loops
    ret,                     \* the image create_output_image returned
    output_image,
    printed,
    written                  \* the pixels handed to the output file

vars == <<pc, model_type, src, glass, processed_output, image, output, mask, glasses,
          translation_vertical, translation_horizontal, i, j, ret, output_image,
          printed, written>>

locals == <<output, mask, glasses, translation_vertical, translation_horizontal, i, j>>
inputs == <<model_type, src, glass, processed_output>>
outcome == <<output_image, printed, written>>

\* The if/elif chain with its final elif taken as the else branch.
Branch_noelse(t) ==
    IF t \in {"POSE", "TEXT", "CAR_META", "FACIAL", "GLASS"} THEN t ELSE "GENDER"

\* The if/elif/else chain of create_output_image: the branch a tag selects.
Branch(t) ==
    IF t \in {"POSE", "TEXT", "CAR_META", "FACIAL", "GLASS", "GENDER"} THEN t ELSE "else"

InputChoice ==
    \/ /\ model_type = "TEXT"
       /\ src \in SparseImages
       /\ glass = NoAsset
       /\ processed_output \in TextOutputs
    \/ /\ model_type = "POSE"
       /\ src \in SparseImages
       /\ glass = NoAsset
       /\ processed_output \in PoseOutputs
    \/ /\ model_type = "CAR_META"
       /\ src \in UniformImages
       /\ glass = NoAsset
       /\ processed_output \in CarOutputs
    \/ /\ model_type = "FACIAL"
       /\ src \in UniformImages
       /\ glass = NoAsset
       /\ processed_output \in FacialOutputs
    \/ /\ model_type = "GLASS"
       /\ src \in UniformImages
       /\ glass \in Assets \cup {NoAsset}
       /\ processed_output \in GlassOutputs
    \/ /\ model_type = "GENDER"
       /\ src \in UniformImages
       /\ glass = NoAsset
       /\ processed_output \in GenderOutputs
    \/ /\ model_type \in UnknownTypes
       /\ src \in SparseImages
       /\ glass \in {NoAsset, [ok |-> TRUE, rows |-> 1, cols |-> 1, px |-> AssetPx(1, 1, {})]}
       /\ processed_output \in FacialOutputs \cup {<<7, 9>>}

Init ==
    /\ pc = "read"
    /\ InputChoice
    /\ image = NoImage
    /\ output = <<>>
    /\ mask = <<>>
    /\ glasses = NoGlasses
    /\ translation_vertical = 0
    /\ translation_horizontal = 0
    /\ i = 0
    /\ j = 0
    /\ ret = NoImage
    /\ output_image = NoImage
    /\ printed = ""
    /\ written = NoImage

\* image = cv2.imread(args.i); the call create_output_image(args.t, image,
\* args.g, processed_output) binds the local output.
ReadImage ==
    /\ pc = "read"
    /\ image' = src
    /\ output' = processed_output
    /\ pc' = "render"
    /\ UNCHANGED <<inputs, mask, glasses, translation_vertical, translation_horizontal,
                   i, j, ret, outcome>>

Raise ==
    /\ pc' = "raised"
    /\ UNCHANGED <<inputs, image, locals, ret, outcome>>

\* ------------------------------------------------------------------- POSE
RenderPoseThreshold ==
    /\ pc = "render"
    /\ Branch(model_type) = "POSE"
    /\ output' = [c \in 1..(Len(output) - 1) |-> Threshold(DropLast(output)[c])]
    /\ pc' = "pose_sum"
    /\ UNCHANGED <<inputs, image, mask, glasses, translation_vertical,
                   translation_horizontal, i, j, ret, outcome>>

RenderPoseComposite ==
    /\ pc = "pose_sum"
    /\ output' = SumAxis0(output)
    /\ mask' = get_mask(output')
    /\ ret' = AddMask(image, mask')
    /\ pc' = "returned"
    /\ UNCHANGED <<inputs, image, glasses, translation_vertical, translation_horizontal,
                   i, j, outcome>>

\* ------------------------------------------------------------------- TEXT
RenderTextThreshold ==
    /\ pc = "render"
    /\ Branch(model_type) = "TEXT"
    /\ output' = Threshold(PyGet(output, 1))
    /\ pc' = "text_mask"
    /\ UNCHANGED <<inputs, image, mask, glasses, translation_vertical,
                   translation_horizontal, i, j, ret, outcome>>

RenderTextComposite ==
    /\ pc = "text_mask"
    /\ mask' = get_mask(output)
    /\ ret' = AddMask(image, mask')
    /\ pc' = "returned"
    /\ UNCHANGED <<inputs, image, output, glasses, translation_vertical,
                   translation_horizontal, i, j, outcome>>

\* ------------------------------------------------------- CAR_META, GENDER
\* max(int(image.shape[0] / d), 1)
Scaler(d) == IF ImgH \div d > 1 THEN ImgH \div d ELSE 1

RenderCarMeta ==
    /\ pc = "render"
    /\ Branch(model_type) = "CAR_META"
    /\ IF /\ PyValid(0, Len(output)) /\ PyValid(1, Len(output))
          /\ PyValid(PyGet(output, 0), Len(CAR_COLORS))
          /\ PyValid(PyGet(output, 1), Len(CAR_TYPES))
       THEN LET color == PyGet(CAR_COLORS, PyGet(output, 0))
                car_type == PyGet(CAR_TYPES, PyGet(output, 1))
                scaler == Scaler(1000)
            IN  /\ image' = putText(image, <<"Color: ", color, ", Type: ", car_type>>,
                                    <<50 * scaler, 100 * scaler>>, 2 * scaler,
                                    <<0, 255, 0>>, 3 * scaler)
                /\ ret' = image'
                /\ pc' = "returned"
                /\ UNCHANGED <<inputs, locals, outcome>>
       ELSE Raise

RenderGender ==
    /\ pc = "render"
    /\ Branch(model_type) = "GENDER"
    /\ IF /\ PyValid(0, Len(output)) /\ PyValid(1, Len(output))
          /\ PyValid(PyGet(output, 1), Len(GENDER_TYPES))
       THEN LET age == PyGet(output, 0)
                gender_type == PyGet(GENDER_TYPES, PyGet(output, 1))
                scaler == Scaler(5000)
            IN  /\ image' = putText(image, <<ToString(age), ",", gender_type, " ">>,
                                    <<20, ImgH - 10>>, 2 * scaler,
                                    <<0, 255, 0>>, 3 * scaler)
                /\ ret' = image'
                /\ pc' = "returned"
                /\ UNCHANGED <<inputs, locals, outcome>>
       ELSE Raise

\* ----------------------------------------------------------------- FACIAL
\* range(0, len(output) - 1, 2): a trailing unpaired entry is skipped
FacialInRange_paired(k, n) == k + 1 < n

\* i in range(0, len(output), 2)
FacialInRange(k, n) == k < n

RenderFacialEnter ==
    /\ pc = "render"
    /\ Branch(model_type) = "FACIAL"
    /\ i' = 0
    /\ pc' = "facial_loop"
    /\ UNCHANGED <<inputs, image, output, mask, glasses, translation_vertical,
                   translation_horizontal, j, ret, outcome>>

\* One iteration: output[i], output[i+1], the marker and its label.
\* fontScale 0.7 is kept in tenths; lineType = 2 is passed in the thickness
\* position.
RenderFacialPoint ==
    /\ pc = "facial_loop"
    /\ FacialInRange(i, Len(output))
    /\ IF PyValid(i, Len(output)) /\ PyValid(i + 1, Len(output))
       THEN LET x == PyGet(output, i)
                y == PyGet(output, i + 1)
            IN  /\ image' = putText(circle(image, x, y), <<"p", ToString(i \div 2)>>,
                                    <<x, y>>, 7, <<255, 255, 255>>, 2)
                /\ i' = i + 2
                /\ UNCHANGED <<pc, inputs, output, mask, glasses, translation_vertical,
                               translation_horizontal, j, ret, outcome>>
       ELSE Raise

RenderFacialReturn ==
    /\ pc = "facial_loop"
    /\ ~FacialInRange(i, Len(output))
    /\ ret' = image
    /\ pc' = "returned"
    /\ UNCHANGED <<inputs, image, locals, outcome>>

\* ------------------------------------------------------------------ GLASS
\* The flat landmark list is a function of the Python index here.

\* (output[36]-output[68])**2 + (output[37]-output[69])**2, the square of scale
Scale2(out) ==
    (out[36] - out[68]) * (out[36] - out[68]) + (out[37] - out[69]) * (out[37] - out[69])

\* the row offset taken from the x entries and the asset's row count
TranslationVertical_x(out, g) == TruncHalf(out[0] + out[4] - g.rows)

\* int((output[1]+output[5])/2 - glasses.shape[1]/2)
TranslationVertical(out, g) == TruncHalf(out[1] + out[5] - g.cols)

\* int((output[0]+output[4])/2 - glasses.shape[0]/2)
TranslationHorizontal(out, g) == TruncHalf(out[0] + out[4] - g.rows)

\* imread, scale, resize and the two offsets.  An unreadable asset fails at
\* glasses.shape; cv2.resize rejects an empty target size.
RenderGlassSetup ==
    /\ pc = "render"
    /\ Branch(model_type) = "GLASS"
    /\ LET w == ISqrt(Scale2(output))
           h == IF glass.ok THEN ISqrtScaled(Scale2(output), glass.rows, glass.cols) ELSE 0
       IN  IF glass.ok /\ w > 0 /\ h > 0
           THEN /\ glasses' = resize(glass, w, h)
                /\ translation_vertical' = TranslationVertical(output, glasses')
                /\ translation_horizontal' = TranslationHorizontal(output, glasses')
                /\ i' = 0
                /\ j' = 0
                /\ pc' = "glass_loop"
                /\ UNCHANGED <<inputs, image, output, mask, ret, outcome>>
           ELSE Raise

\* One pass of the inner loop body for asset pixel (i, j).
RenderGlassPixel ==
    /\ pc = "glass_loop"
    /\ i < glasses.rows
    /\ LET g == glasses.px[i][j]
           row == i + translation_vertical
           col == j + translation_horizontal
           step == /\ j' = (IF j + 1 < glasses.cols THEN j + 1 ELSE 0)
                   /\ i' = (IF j + 1 < glasses.cols THEN i ELSE i + 1)
                   /\ UNCHANGED <<pc, inputs, output, mask, glasses, translation_vertical,
                                  translation_horizontal, ret, outcome>>
       IN  IF g[4] # 0
           THEN IF PyValid(row, ImgH) /\ PyValid(col, ImgW)
                THEN /\ image' = [image EXCEPT !.px[PyPos(row, ImgH)][PyPos(col, ImgW)] =
                                                    <<g[1], g[2], g[3]>>]
                     /\ step
                ELSE Raise
           ELSE /\ image' = image
                /\ step

RenderGlassReturn ==
    /\ pc = "glass_loop"
    /\ i >= glasses.rows
    /\ ret' = image
    /\ pc' = "returned"
    /\ UNCHANGED <<inputs, image, locals, outcome>>

\* ---------------------------------------------------------------- unknown
RenderUnknown ==
    /\ pc = "render"
    /\ Branch(model_type) = "else"
    /\ ret' = image
    /\ pc' = "returned"
    /\ UNCHANGED <<inputs, image, locals, outcome>>

\* ------------------------------------------------------ perform_inference
Success ==
    /\ pc = "returned"
    /\ output_image' = ret
    /\ printed' = "Success"
    /\ pc' = "write"
    /\ UNCHANGED <<inputs, image, locals, ret, written>>

Error ==
    /\ pc = "raised"
    /\ output_image' = image
    /\ printed' = "Error"
    /\ pc' = "write"
    /\ UNCHANGED <<inputs, image, locals, ret, written>>

Imwrite ==
    /\ pc = "write"
    /\ written' = imwrite(output_image)
    /\ pc' = "done"
    /\ UNCHANGED <<inputs, image, locals, ret, output_image, printed>>

Next ==
    \/ ReadImage
    \/ RenderPoseThreshold
    \/ RenderPoseComposite
    \/ RenderTextThreshold
    \/ RenderTextComposite
    \/ RenderCarMeta
    \/ RenderFacialEnter
    \/ RenderFacialPoint
    \/ RenderFacialReturn
    \/ RenderGlassSetup
    \/ RenderGlassPixel
    \/ RenderGlassReturn
    \/ RenderGender
    \/ RenderUnknown
    \/ Success
    \/ Error
    \/ Imwrite

Spec == Init /\ [][Next]_vars

\* ================================================================= claims
PoseOrText == model_type \in {"POSE", "TEXT"}

\* Some class channel (POSE) or channel 1 (TEXT) is above the cutoff at (r, c).
Detected(r, c) ==
    IF model_type = "TEXT"
    THEN processed_output[2][r][c] > Cutoff
    ELSE \E k \in 1..(Len(processed_output) - 1) : processed_output[k][r][c] > Cutoff

\* C1: every map the POSE path thresholds (all channels but the last) and the
\* map the TEXT path thresholds (channel index 1) becomes 255 exactly where the
\* probability is above 0.5 and 0 everywhere else, 0.5 itself included.
C1_ThresholdExact ==
    /\ pc = "pose_sum" =>
          /\ Len(output) = Len(processed_output) - 1
          /\ \A k \in 1..Len(output) : \A r \in Rows : \A c \in Cols :
                /\ output[k][r][c] \in {0, 255}
                /\ (output[k][r][c] = 255) <=> (processed_output[k][r][c] > Cutoff)
    /\ pc = "text_mask" =>
          \A r \in Rows : \A c \in Cols :
                /\ output[r][c] \in {0, 255}
                /\ (output[r][c] = 255) <=> (processed_output[2][r][c] > Cutoff)

\* A thresholded POSE stack holding an element exactly at the cutoff (now 0)
\* and one above it (now 255).
C1_Witness ==
    /\ pc = "pose_sum"
    /\ \E k \in 1..Len(output) : \E r \in Rows : \E c \in Cols :
          processed_output[k][r][c] = Cutoff /\ output[k][r][c] = 0
    /\ \E k \in 1..Len(output) : \E r \in Rows : \E c \in Cols :
          processed_output[k][r][c] > Cutoff /\ output[k][r][c] = 255

\* C2: the image the POSE and TEXT paths return differs from the base image
\* only in the green channel and only where the thresholded map is 255; blue
\* and red are the base image's everywhere.
C2_OnlyGreenWhereDetected ==
    (pc = "returned" /\ PoseOrText) =>
        \A r \in Rows : \A c \in Cols :
            /\ ret.px[r][c][1] = image.px[r][c][1]
            /\ ret.px[r][c][3] = image.px[r][c][3]
            /\ (ret.px[r][c][2] # image.px[r][c][2]) => Detected(r, c)

\* A TEXT result with a detected position whose green changed beside an
\* undetected position.
C2_Witness ==
    /\ pc = "returned"
    /\ model_type = "TEXT"
    /\ \E r \in Rows : \E c \in Cols :
          Detected(r, c) /\ ret.px[r][c][2] # image.px[r][c][2]
    /\ \E r \in Rows : \E c \in Cols : ~Detected(r, c)

\* C3: a tag outside the six known ones never fails, and the image returned
\* (and passed on to the output file) is the input image unchanged.
C3_UnknownPassThrough ==
    (model_type \notin KnownTypes) =>
        /\ pc # "raised"
        /\ printed # "Error"
        /\ (pc = "returned") => (ret = src /\ image = src)
        /\ (pc \in {"write", "done"}) => (output_image = src)

C3_Witness ==
    /\ model_type \notin KnownTypes
    /\ pc = "returned"
    /\ glass.ok
    /\ Len(processed_output) = 2

\* C7: a FACIAL landmark list of odd length never yields a returned image:
\* the loop cannot run out normally and the render is reported as an error.
C7_OddLandmarksFail ==
    (model_type = "FACIAL" /\ Len(processed_output) % 2 = 1) =>
        /\ pc # "returned"
        /\ printed # "Success"
        /\ (pc = "facial_loop") => (i < Len(output))
        /\ (pc \in {"write", "done"}) => (printed = "Error")

\* Three landmark entries: one marker drawn, then the failure.
C7_Witness ==
    /\ model_type = "FACIAL"
    /\ Len(processed_output) = 3
    /\ pc = "raised"
    /\ i = 2

\* The text of the last draw record on the image.
LastText == image.txt[Len(image.txt)].text

InTable(k, table) == (0 <= k) /\ (k < Len(table))

\* C4: in the CAR_META and GENDER paths an index inside [0, len(table)) is
\* decoded to the label at that position, and any index outside it, a negative
\* one included, makes the render fail instead of producing a label.
C4_OutOfRangeFails ==
    /\ (model_type = "CAR_META" /\ pc \in {"returned", "raised"}) =>
          IF InTable(processed_output[1], CAR_COLORS) /\ InTable(processed_output[2], CAR_TYPES)
          THEN /\ pc = "returned"
               /\ LastText[2] = CAR_COLORS[processed_output[1] + 1]
               /\ LastText[4] = CAR_TYPES[processed_output[2] + 1]
          ELSE pc = "raised"
    /\ (model_type = "GENDER" /\ pc \in {"returned", "raised"}) =>
          IF InTable(processed_output[2], GENDER_TYPES)
          THEN /\ pc = "returned"
               /\ LastText[3] = GENDER_TYPES[processed_output[2] + 1]
          ELSE pc = "raised"

\* The GLASS path is past its setup: the asset is resized, the offsets are set.
GlassStarted == model_type = "GLASS" /\ glasses.rows > 0

AssetCells == (0..(glasses.rows - 1)) \X (0..(glasses.cols - 1))

Opaque(p) == glasses.px[p[1]][p[2]][4] # 0

\* C5: the overlay never changes a base-image pixel other than the in-range
\* position (row + vertical offset, column + horizontal offset) of an asset
\* pixel it writes; a write that would fall outside the image is skipped or
\* fails.
C5_NoStrayWrite ==
    GlassStarted =>
        \A r \in Rows : \A c \in Cols :
            (image.px[r][c] # src.px[r][c]) =>
                \E p \in AssetCells :
                    /\ Opaque(p)
                    /\ p[1] + translation_vertical = r
                    /\ p[2] + translation_horizontal = c

\* Asset pixels the loop has already passed, in loop order.
Before(p, q) == (p[1] < q[1]) \/ (p[1] = q[1] /\ p[2] < q[2])

Processed == {p \in AssetCells : Before(p, <<i, j>>)}

\* C6 as claimed: the row offset is the midpoint of entries 0 and 4 minus half
\* the asset's extent along the rows, the column offset the midpoint of
\* entries 1 and 5 minus half its extent along the columns, and a processed
\* asset pixel (i, j) is found at (i + row offset, j + column offset).
C6_OffsetsAsClaimed ==
    GlassStarted =>
        /\ translation_vertical = TruncHalf(processed_output[0] + processed_output[4] - glasses.rows)
        /\ translation_horizontal = TruncHalf(processed_output[1] + processed_output[5] - glasses.cols)
        /\ \A p \in Processed :
              Opaque(p) =>
                  /\ p[1] + translation_vertical \in Rows
                  /\ p[2] + translation_horizontal \in Cols
                  /\ image.px[p[1] + translation_vertical][p[2] + translation_horizontal]
                        = SubSeq(glasses.px[p[1]][p[2]], 1, 3)

\* The processed opaque asset pixels whose numpy index lands on (r, c).
Writers(r, c) ==
    {p \in Processed :
        /\ Opaque(p)
        /\ PyPos(p[1] + translation_vertical, ImgH) = r
        /\ PyPos(p[2] + translation_horizontal, ImgW) = c}

LastOf(S) == CHOOSE p \in S : \A q \in S : q = p \/ Before(q, p)

\* C6 amended: the row offset is int(midpoint of entries 1 and 5 - half the
\* resized asset's column count), the column offset is int(midpoint of entries
\* 0 and 4 - half its row count), and every processed asset pixel (i, j) with
\* non-zero alpha was written at numpy index (i + row offset, j + column
\* offset): that position when in range, the position counted back from the
\* far edge when negative; each base pixel holds its last writer's colour, or
\* the source pixel when it has none.
C6_OffsetsAsCoded ==
    GlassStarted =>
        /\ translation_vertical = TruncHalf(processed_output[1] + processed_output[5] - glasses.cols)
        /\ translation_horizontal = TruncHalf(processed_output[0] + processed_output[4] - glasses.rows)
        /\ \A p \in Processed :
              Opaque(p) =>
                  /\ -ImgH <= p[1] + translation_vertical
                  /\ p[1] + translation_vertical < ImgH
                  /\ -ImgW <= p[2] + translation_horizontal
                  /\ p[2] + translation_horizontal < ImgW
        /\ \A r \in Rows : \A c \in Cols :
              image.px[r][c] =
                  IF Writers(r, c) = {} THEN src.px[r][c]
                  ELSE SubSeq(glasses.px[LastOf(Writers(r, c))[1]][LastOf(Writers(r, c))[2]], 1, 3)

\* A finished overlay of a non-square asset with differing x and y midpoints,
\* all targets in range and at least one pixel written.
C6_Witness ==
    /\ GlassStarted
    /\ pc = "returned"
    /\ glasses.rows # glasses.cols
    /\ processed_output[0] + processed_output[4] # processed_output[1] + processed_output[5]
    /\ translation_vertical >= 0
    /\ translation_horizontal >= 0
    /\ image # src

\* C8: when the render fails partway, the image perform_inference falls back
\* to and writes out is the unannotated source image.
C8_FallbackIsSource ==
    (printed = "Error") =>
        /\ output_image = src
        /\ (pc = "done") => (written = src)

\* C9: the POSE mask has blue and red all zero and every green value 0 or 255,
\* overlapping detections included, and the image's height and width.
C9_PoseMaskBinary ==
    (model_type = "POSE" /\ pc = "returned") =>
        /\ DOMAIN mask = Rows
        /\ \A r \in Rows :
              /\ DOMAIN mask[r] = Cols
              /\ \A c \in Cols :
                    /\ mask[r][c][1] = 0
                    /\ mask[r][c][3] = 0
                    /\ mask[r][c][2] \in {0, 255}

\* C10: every sample of the image the POSE and TEXT paths return is within
\* 0..255: the addition saturates.
C10_SamplesInRange ==
    (PoseOrText /\ pc = "returned") =>
        \A r \in Rows : \A c \in Cols : \A ch \in 1..3 : ret.px[r][c][ch] \in 0..255

====
